---- MODULE Spec2Model ----
(***************************************************************************)
(* prftool.py: the orthographic-profile segmenter (apply_profile_to_form), *)
(* the frequency collector (apply_profile) and the rule trimmer            *)
(* (trim_profile and the loop of main that drives it).                     *)
(*                                                                         *)
(* Python strings are TLA+ strings; s[i:j] is SubSeq(s, i + 1, j).  The    *)
(* cursor i keeps Python's 0-based value.                                  *)
(***************************************************************************)
EXTENDS Integers, Sequences, FiniteSets, TLC

VARIABLES
    args,           \* the argparse namespace: nonfc, nobound, debug_wl, multilang, lang_id
    profile,        \* the list of rows (entries) the command works on
    segment_map,    \* dict grapheme -> entry; an entry is its index in profile (aliasing)
    rawform,        \* the form handed to apply_profile_to_form
    language,       \* the language id handed to apply_profile_to_form
    form,           \* apply_profile_to_form: the local `form` after preparation
    i,              \* apply_profile_to_form: the cursor
    segments,       \* apply_profile_to_form: the local list `segments`
    result,         \* apply_profile_to_form: the returned list
    spc,            \* apply_profile_to_form: position ("idle", "loop", "filter", "returned", "raised")
    steps,          \* history: one record per iteration of the while loop
    wordlist,       \* apply_profile: the rows of the wordlist, <<form, language id>>
    row,            \* apply_profile: number of rows consumed
    pc,             \* position of the command
    input_profile,  \* history: the profile as read by read_profile
    pass_input,     \* history: the profile the last trim_profile call received
    check_graphemes,\* trim_profile: the candidate list of the last call
    removed,        \* main: `removed` of the last trim_profile call
    total_removed,  \* main: total_removed
    passes          \* history: number of trim_profile calls made

vars == <<args, profile, segment_map, rawform, language, form, i, segments, result,
          spc, steps, wordlist, row, pc, input_profile, pass_input, check_graphemes,
          removed, total_removed, passes>>

segvars == <<form, i, segments, result, spc, steps>>
trimvars == <<input_profile, pass_input, check_graphemes, removed, total_removed, passes>>

-----------------------------------------------------------------------------
(* Bounds of the model *)

MaxFormLen == 2
MaxRules == 2
MaxRows == 2

-----------------------------------------------------------------------------
(* Strings *)

Min(a, b) == IF a < b THEN a ELSE b

\* s[k] for a 0-based k
CharAt(s, k) == SubSeq(s, k + 1, k + 1)

\* s[k:] for a 0-based k
From(s, k) == SubSeq(s, k + 1, Len(s))

\* " ".join(tokens)
RECURSIVE Join(_)
Join(tokens) ==
    IF Len(tokens) = 0 THEN ""
    ELSE IF Len(tokens) = 1 THEN tokens[1]
    ELSE tokens[1] \o " " \o Join(Tail(tokens))

\* text.split(): the whitespace-separated pieces of text, empty pieces dropped
RECURSIVE SplitFrom(_, _, _)
SplitFrom(text, k, word) ==
    IF k = Len(text)
    THEN IF word = "" THEN <<>> ELSE <<word>>
    ELSE IF CharAt(text, k) = " "
         THEN (IF word = "" THEN <<>> ELSE <<word>>) \o SplitFrom(text, k + 1, "")
         ELSE SplitFrom(text, k + 1, word \o CharAt(text, k))

Split(text) == SplitFrom(text, 0, "")

\* unicodedata.normalize("NFC", text) on the model's alphabet: "~" is a
\* combining mark, "a~" composes to the single character "A", no other pair
\* composes.
RECURSIVE normalize(_)
normalize(text) ==
    IF Len(text) < 2 THEN text
    ELSE IF SubSeq(text, 1, 2) = "a~"
         THEN "A" \o normalize(From(text, 2))
         ELSE CharAt(text, 0) \o normalize(From(text, 1))

Digits == "0123456789"

\* str(n) for n >= 0
RECURSIVE Str(_)
Str(n) == IF n < 10 THEN CharAt(Digits, n) ELSE Str(n \div 10) \o CharAt(Digits, n % 10)

-----------------------------------------------------------------------------
(* Rule tables *)

\* {entry[args.grapheme]: entry for entry in new_profile}: a later row of the
\* same grapheme replaces an earlier one
BuildSegmentMap(prof) ==
    [g \in {prof[k].Grapheme : k \in 1..Len(prof)} |->
        CHOOSE k \in 1..Len(prof) :
            /\ prof[k].Grapheme = g
            /\ \A m \in 1..Len(prof) : prof[m].Grapheme = g => m <= k]

\* segment_map[needle][args.ipa]
IpaOf(prof, map, needle) == prof[map[needle]].IPA

-----------------------------------------------------------------------------
(* apply_profile_to_form *)

\* lines 287-290: the form is normalized unless args.nonfc, and it is wrapped
\* in ^ and $ unless args.nonfc (the second test reads nonfc too)
PrepareForm(f, a) ==
    LET normalized == IF ~a.nonfc THEN normalize(f) ELSE f
    IN  IF ~a.nonfc THEN "^" \o normalized \o "$" ELSE normalized

\* lines 297-299: for length in range(len(form[i:]), 0, -1), the first length
\* whose needle is a key; 0 when the loop ends without a match
RECURSIVE FirstMatch(_, _, _, _)
FirstMatch(f, k, length, map) ==
    IF length <= 0 THEN 0
    ELSE IF SubSeq(f, k + 1, k + length) \in DOMAIN map THEN length
    ELSE FirstMatch(f, k, length - 1, map)

\* mutant: the lengths tried shortest first, range(1, len(form[i:]) + 1)
RECURSIVE FirstMatchAscending(_, _, _, _)
FirstMatchAscending(f, k, length, map) ==
    IF length > Len(From(f, k)) THEN 0
    ELSE IF SubSeq(f, k + 1, k + length) \in DOMAIN map THEN length
    ELSE FirstMatchAscending(f, k, length + 1, map)

MatchLengthShortest(f, k, map) == FirstMatchAscending(f, k, 1, map)

MatchLength(f, k, map) == FirstMatch(f, k, Len(From(f, k)), map)

\* lines 300-305: what a match appends to segments
MatchToken(needle, ipa, a) ==
    IF a.debug_wl THEN "{" \o needle \o "}/{" \o ipa \o "}" ELSE ipa

\* mutant: an unmatched character is dropped like a sentinel
NoMatchTokensSilent(c, a) ==
    IF c = " " THEN (IF a.debug_wl THEN <<"{ }/{#}">> ELSE <<"#">>)
    ELSE IF a.debug_wl THEN <<"{" \o c \o "}/{}">> ELSE <<>>

\* lines 316-325: what an unmatched character appends to segments
NoMatchTokens(c, a) ==
    IF c = " " THEN (IF a.debug_wl THEN <<"{ }/{#}">> ELSE <<"#">>)
    ELSE IF c \in {"^", "$"} THEN (IF a.debug_wl THEN <<"{" \o c \o "}/{}">> ELSE <<>>)
    ELSE <<"<<" \o c \o ">>">>

NoMatchKind(c) ==
    IF c = " " THEN "space" ELSE IF c \in {"^", "$"} THEN "sentinel" ELSE "unmatched"

\* line 333: [seg for seg in segments if seg != "NULL"]
RemoveNulls(segs) == SelectSeq(segs, LAMBDA seg : seg # "NULL")

\* mutant: the match records the example and the language, not the frequency
CountNoFrequency(prof, k, f, lang) ==
    [prof EXCEPT ![k].EXAMPLES = Append(@, f),
                 ![k].LANGUAGES = Append(@, lang)]

\* lines 308-310: the counters of the matched entry
Count(prof, k, f, lang) ==
    [prof EXCEPT ![k].FREQUENCY = @ + 1,
                 ![k].EXAMPLES = Append(@, f),
                 ![k].LANGUAGES = Append(@, lang)]

\* The whole function on a table whose counters are not looked at: the list
\* it returns, or raised when form[i] is read past the end of the form.
RECURSIVE SegLoop(_, _, _, _, _, _)
SegLoop(f, k, segs, prof, map, a) ==
    LET length == MatchLength(f, k, map)
        needle == SubSeq(f, k + 1, k + length)
    IN  IF length > 0
        THEN LET segs2 == Append(segs, MatchToken(needle, IpaOf(prof, map, needle), a))
             IN  IF k + length = Len(f)
                 THEN [raised |-> FALSE, segments |-> RemoveNulls(segs2)]
                 ELSE SegLoop(f, k + length, segs2, prof, map, a)
        ELSE IF k >= Len(f)
             THEN [raised |-> TRUE, segments |-> <<>>]
             ELSE LET segs2 == segs \o NoMatchTokens(CharAt(f, k), a)
                  IN  IF k + 1 = Len(f)
                      THEN [raised |-> FALSE, segments |-> RemoveNulls(segs2)]
                      ELSE SegLoop(f, k + 1, segs2, prof, map, a)

apply_profile_to_form(f, prof, map, a) == SegLoop(PrepareForm(f, a), 0, <<>>, prof, map, a)

\* lines 286-294: the call, up to the first iteration
Call(f, lang) ==
    /\ spc = "idle"
    /\ rawform' = f
    /\ language' = lang
    /\ form' = PrepareForm(f, args)
    /\ i' = 0
    /\ segments' = <<>>
    /\ result' = <<>>
    /\ spc' = "loop"

\* line 328: if i == len(form): break
AfterStep(k) == IF k = Len(form) THEN "filter" ELSE "loop"

\* lines 296-313 and 328: an iteration that finds a key
SegMatch ==
    /\ spc = "loop"
    /\ MatchLength(form, i, segment_map) > 0
    /\ LET length == MatchLength(form, i, segment_map)
           needle == SubSeq(form, i + 1, i + length)
           token == MatchToken(needle, IpaOf(profile, segment_map, needle), args)
       IN  /\ segments' = Append(segments, token)
           /\ profile' = Count(profile, segment_map[needle], form, language)
           /\ i' = i + length
           /\ spc' = AfterStep(i + length)
           /\ steps' = Append(steps, [form |-> form, at |-> i, len |-> length,
                                      kind |-> "match", key |-> needle,
                                      entry |-> segment_map[needle],
                                      tokens |-> <<token>>])
    /\ UNCHANGED <<args, segment_map, rawform, language, form, result, wordlist, row, pc>>
    /\ UNCHANGED trimvars

\* lines 315-328: an iteration that finds no key, on a character of the form
SegNoMatch ==
    /\ spc = "loop"
    /\ MatchLength(form, i, segment_map) = 0
    /\ i < Len(form)
    /\ LET c == CharAt(form, i)
       IN  /\ segments' = segments \o NoMatchTokens(c, args)
           /\ i' = i + 1
           /\ spc' = AfterStep(i + 1)
           /\ steps' = Append(steps, [form |-> form, at |-> i, len |-> 1,
                                      kind |-> NoMatchKind(c), key |-> "",
                                      entry |-> 0,
                                      tokens |-> NoMatchTokens(c, args)])
    /\ UNCHANGED <<args, profile, segment_map, rawform, language, form, result,
                   wordlist, row, pc>>
    /\ UNCHANGED trimvars

\* line 316 on the empty form: form[i] raises IndexError
SegIndexError ==
    /\ spc = "loop"
    /\ MatchLength(form, i, segment_map) = 0
    /\ i >= Len(form)
    /\ spc' = "raised"
    /\ UNCHANGED <<args, profile, segment_map, rawform, language, form, i, segments,
                   result, steps, wordlist, row, pc>>
    /\ UNCHANGED trimvars

\* lines 331-335: the NULL filter and the return
SegReturn ==
    /\ spc = "filter"
    /\ result' = RemoveNulls(segments)
    /\ spc' = "returned"
    /\ UNCHANGED <<args, profile, segment_map, rawform, language, form, i, segments,
                   steps, wordlist, row, pc>>
    /\ UNCHANGED trimvars

-----------------------------------------------------------------------------
(* The inputs: profile files, forms, options *)

Booleans == {FALSE, TRUE}

\* the characters of the forms: two letters, the space and a combining mark
FormChars == {"a", "b", " ", "~"}

RECURSIVE StringsUpTo(_, _)
StringsUpTo(chars, n) ==
    IF n = 0 THEN {""}
    ELSE LET shorter == StringsUpTo(chars, n - 1)
         IN  shorter \cup {s \o c : s \in shorter, c \in chars}

Forms == StringsUpTo(FormChars, MaxFormLen)

\* the grapheme and transcription columns a profile file may hold
Graphemes == <<"ab", "^a$", "a", "^", "$">>
Transcriptions == {"A", "NULL", "A NULL"}

RECURSIVE Ascending(_)
Ascending(S) ==
    IF S = {} THEN <<>>
    ELSE LET m == CHOOSE x \in S : \A y \in S : x <= y
         IN  <<m>> \o Ascending(S \ {m})

\* a row as csv.DictReader gives it: every field is text
Row(g, ipa, freq) ==
    [Grapheme |-> g, IPA |-> ipa, FREQUENCY |-> freq, EXAMPLES |-> "", LANGUAGES |-> ""]

\* the profile files of at most MaxRules rows over a list of graphemes, each
\* grapheme at most once, in the order of the list
FilesOver(graphemes, transcriptions, frequencies) ==
    LET picks == {S \in SUBSET (1..Len(graphemes)) : Cardinality(S) <= MaxRules}
        rows(S) == [S -> transcriptions \X frequencies]
    IN  UNION {{[k \in 1..Cardinality(S) |->
                    LET n == Ascending(S)[k]
                    IN  Row(graphemes[n], f[n][1], f[n][2])] : f \in rows(S)} : S \in picks}

\* the table of the boundary scenario
ScenarioFile ==
    <<Row("^a$", "A1", "0"), Row("a", "A2", "0"), Row("^", "NULL", "0"), Row("$", "NULL", "0")>>

\* lines 80-90: read_profile normalizes both columns unless args.nonfc
read_profile(rows, a) ==
    [k \in 1..Len(rows) |->
        IF ~a.nonfc
        THEN [rows[k] EXCEPT !.Grapheme = normalize(@), !.IPA = normalize(@)]
        ELSE rows[k]]

\* lines 353-361: the copy with cleared counters
ClearCounters(prof) ==
    [k \in 1..Len(prof) |->
        [prof[k] EXCEPT !.FREQUENCY = 0, !.EXAMPLES = <<>>, !.LANGUAGES = <<>>]]

Options(multilangs, lang_ids) ==
    [nonfc : Booleans, nobound : Booleans, debug_wl : Booleans,
     multilang : multilangs, lang_id : lang_ids]

NoTrim ==
    /\ input_profile = profile
    /\ pass_input = <<>>
    /\ check_graphemes = <<>>
    /\ removed = 0
    /\ total_removed = 0
    /\ passes = 0

SegIdle ==
    /\ rawform = ""
    /\ language = ""
    /\ form = ""
    /\ i = 0
    /\ segments = <<>>
    /\ result = <<>>
    /\ spc = "idle"
    /\ steps = <<>>

-----------------------------------------------------------------------------
(* The segmenter on one form *)

SegInit ==
    /\ args \in Options({FALSE}, {"L1"})
    /\ \E rows \in FilesOver(Graphemes, Transcriptions, {"0"}) \cup {ScenarioFile} :
          profile = ClearCounters(read_profile(rows, args))
    /\ segment_map = BuildSegmentMap(profile)
    /\ wordlist \in {<<[Form |-> f, Language_ID |-> "L1"]>> : f \in Forms}
    /\ row = 0
    /\ pc = "segment"
    /\ SegIdle
    /\ NoTrim

\* the call apply_profile_to_form(form, language, segment_map, args)
SegCall ==
    /\ pc = "segment"
    /\ row = 0
    /\ Call(wordlist[1].Form, wordlist[1].Language_ID)
    /\ row' = 1
    /\ UNCHANGED <<args, profile, segment_map, steps, wordlist, pc>>
    /\ UNCHANGED trimvars

SegNext == SegCall \/ SegMatch \/ SegNoMatch \/ SegIndexError \/ SegReturn

SegSpec == SegInit /\ [][SegNext]_vars

-----------------------------------------------------------------------------
(* apply_profile: the segmenter over a wordlist *)

\* the rows of the wordlist file
WordRows ==
    {[Form |-> "ab", Language_ID |-> "L1"], [Form |-> "ba", Language_ID |-> "L2"],
     [Form |-> "", Language_ID |-> "L1"]}

RECURSIVE ListsUpTo(_, _)
ListsUpTo(S, n) ==
    IF n = 0 THEN {<<>>}
    ELSE LET shorter == ListsUpTo(S, n - 1)
         IN  shorter \cup {Append(l, x) : l \in shorter, x \in S}

FreqGraphemes == <<"ab", "a", "^">>
FreqTranscriptions == {"A", "NULL"}
InputFrequencies == {"0", "7"}

FreqInit ==
    /\ args \in Options(Booleans, {"L1"})
    /\ \E rows \in FilesOver(FreqGraphemes, FreqTranscriptions, InputFrequencies) :
          profile = read_profile(rows, args)
    /\ segment_map = <<>>
    /\ wordlist \in ListsUpTo(WordRows, MaxRows)
    /\ row = 0
    /\ pc = "apply_profile"
    /\ SegIdle
    /\ NoTrim

\* lines 349-376: the copy with cleared counters and the segment map
ApplyProfileBegin ==
    /\ pc = "apply_profile"
    /\ profile' = ClearCounters(profile)
    /\ segment_map' = BuildSegmentMap(ClearCounters(profile))
    /\ row' = 0
    /\ pc' = "rows"
    /\ UNCHANGED <<args, rawform, language, wordlist>>
    /\ UNCHANGED segvars
    /\ UNCHANGED trimvars

\* lines 385-390: a row of another language is skipped under args.multilang
RowSkip ==
    /\ pc = "rows"
    /\ spc = "idle"
    /\ row < Len(wordlist)
    /\ args.multilang
    /\ wordlist[row + 1].Language_ID # args.lang_id
    /\ row' = row + 1
    /\ UNCHANGED <<args, profile, segment_map, rawform, language, wordlist, pc>>
    /\ UNCHANGED segvars
    /\ UNCHANGED trimvars

\* lines 394-396: the segmenter is called on the row
RowCall ==
    /\ pc = "rows"
    /\ row < Len(wordlist)
    /\ ~(args.multilang /\ wordlist[row + 1].Language_ID # args.lang_id)
    /\ Call(wordlist[row + 1].Form, wordlist[row + 1].Language_ID)
    /\ row' = row + 1
    /\ UNCHANGED <<args, profile, segment_map, steps, wordlist, pc>>
    /\ UNCHANGED trimvars

\* lines 398-403: the segments of the row are taken; the next row follows
RowCollect ==
    /\ pc = "rows"
    /\ spc = "returned"
    /\ spc' = "idle"
    /\ UNCHANGED <<args, profile, segment_map, rawform, language, form, i, segments,
                   result, steps, wordlist, row, pc>>
    /\ UNCHANGED trimvars

\* line 422: at most three examples are exported
SampleSize == 3

\* lines 420-424: the sample is drawn by a generator seeded with the grapheme:
\* some subset of the distinct examples, of size min(len(examples), 3), always
\* the same for the same examples; the first and last character of each
\* example are cut unless args.nobound
ExampleSample(examples, a) ==
    LET distinct == {examples[k] : k \in 1..Len(examples)}
        sample == CHOOSE S \in SUBSET distinct :
                      Cardinality(S) = Min(Cardinality(distinct), SampleSize)
    IN  IF ~a.nobound THEN {SubSeq(f, 2, Len(f) - 1) : f \in sample} ELSE sample

\* lines 414-433: the frequency becomes text; the examples and the languages
\* become the text of their sorted distinct members, kept here as their set
Compile(entry, a) ==
    [entry EXCEPT !.FREQUENCY = Str(@),
                  !.EXAMPLES = ExampleSample(@, a),
                  !.LANGUAGES = {@[k] : k \in 1..Len(@)}]

\* lines 405-435: after the last row the fields are compiled and the profile
\* is returned
ApplyProfileEnd ==
    /\ pc = "rows"
    /\ spc = "idle"
    /\ row = Len(wordlist)
    /\ profile' = [k \in 1..Len(profile) |-> Compile(profile[k], args)]
    /\ pc' = "applied"
    /\ UNCHANGED <<args, segment_map, rawform, language, wordlist, row>>
    /\ UNCHANGED segvars
    /\ UNCHANGED trimvars

FreqNext ==
    \/ ApplyProfileBegin
    \/ RowSkip
    \/ RowCall
    \/ SegMatch
    \/ SegNoMatch
    \/ SegIndexError
    \/ SegReturn
    \/ RowCollect
    \/ ApplyProfileEnd

FreqSpec == FreqInit /\ [][FreqNext]_vars

-----------------------------------------------------------------------------
(* trim_profile and the trim command *)

\* lines 152-157: the copy; FREQUENCY and EXAMPLES are cleared
TrimCopy(prof) ==
    [k \in 1..Len(prof) |-> [prof[k] EXCEPT !.FREQUENCY = 0, !.EXAMPLES = <<>>]]

\* line 164: list(segment_map.keys()), the graphemes in the order of their
\* first row
KeyList(prof) ==
    LET first(k) == \A m \in 1..(k - 1) : prof[m].Grapheme # prof[k].Grapheme
        RECURSIVE keys(_)
        keys(k) == IF k > Len(prof) THEN <<>>
                   ELSE (IF first(k) THEN <<prof[k].Grapheme>> ELSE <<>>) \o keys(k + 1)
    IN  keys(1)

First(g) == CharAt(g, 0)
Last(g) == CharAt(g, Len(g) - 1)

\* lines 165-179: the graphemes with ^ and $, the same once more, then those
\* with $ only
BoundGraphemes(graphemes) ==
    SelectSeq(graphemes, LAMBDA g : First(g) = "^" /\ Last(g) = "$")
    \o SelectSeq(graphemes, LAMBDA g : First(g) = "^" /\ Last(g) = "$")
    \o SelectSeq(graphemes, LAMBDA g : First(g) # "^" /\ Last(g) = "$")

\* sorted(..., key=len, reverse=True): longest first, equal lengths in their
\* order in the list
RECURSIVE LongestFirst(_)
LongestFirst(list) ==
    IF list = <<>> THEN <<>>
    ELSE LET m == CHOOSE k \in 1..Len(list) :
                      /\ \A n \in 1..Len(list) : Len(list[n]) <= Len(list[k])
                      /\ \A n \in 1..(k - 1) : Len(list[n]) < Len(list[k])
         IN  <<list[m]>> \o LongestFirst(SubSeq(list, 1, m - 1) \o SubSeq(list, m + 1, Len(list)))

\* lines 181-189: the list sorted is drawn from bound_graphemes, not from
\* graphemes
CheckGraphemes(graphemes) ==
    LET bound_graphemes == BoundGraphemes(graphemes)
        inbound(g) == \E k \in 1..Len(bound_graphemes) : bound_graphemes[k] = g
    IN  bound_graphemes
        \o LongestFirst(SelectSeq(bound_graphemes, LAMBDA g : Len(g) > 1 /\ ~inbound(g)))

\* the parameters of apply_profile_to_form (form, language, segment_map, args)
\* and the arguments of the call in trim_profile (grapheme, segment_map, args)
ParameterCount == 4
TrimArgumentCount == 3

\* line 204: the call; too few arguments raise TypeError before the function
\* runs
TrimCall(grapheme, prof, map, a) ==
    IF TrimArgumentCount # ParameterCount
    THEN [raised |-> TRUE, segments |-> <<>>]
    ELSE apply_profile_to_form(grapheme, prof, map, a)

Without(map, g) == [h \in DOMAIN map \ {g} |-> map[h]]

\* lines 194-217: the loop over the candidates
RECURSIVE TrimLoop(_, _, _, _, _, _)
TrimLoop(check, n, prof, map, count, a) ==
    IF n > Len(check) THEN [raised |-> FALSE, segment_map |-> map, removed |-> count]
    ELSE IF check[n] \notin DOMAIN map THEN TrimLoop(check, n + 1, prof, map, count, a)
    ELSE LET grapheme == check[n]
             ipa == IpaOf(prof, map, grapheme)
             call == TrimCall(grapheme, prof, Without(map, grapheme), a)
         IN  IF call.raised
             THEN [raised |-> TRUE, segment_map |-> Without(map, grapheme), removed |-> count]
             ELSE IF ipa = Join(call.segments)
                  THEN TrimLoop(check, n + 1, prof, Without(map, grapheme), count + 1, a)
                  ELSE TrimLoop(check, n + 1, prof, map, count, a)

\* mutant: the rebuilt profile keeps the rows whose transcription is a key
RebuildByIpa(new_profile, map) ==
    SelectSeq(new_profile, LAMBDA entry : entry.IPA \in DOMAIN map)

\* lines 219-222: the rows whose grapheme is still in segment_map
Rebuild(new_profile, map) ==
    SelectSeq(new_profile, LAMBDA entry : entry.Grapheme \in DOMAIN map)

\* lines 149-224: new_profile and removed, or raised
trim_profile(prof, a) ==
    LET new_profile == TrimCopy(prof)
        map == BuildSegmentMap(new_profile)
        check == CheckGraphemes(KeyList(new_profile))
        loop == TrimLoop(check, 1, new_profile, map, 0, a)
    IN  [raised |-> loop.raised,
         check_graphemes |-> check,
         profile |-> IF loop.raised THEN prof ELSE Rebuild(new_profile, loop.segment_map),
         removed |-> loop.removed]

TrimGraphemes == <<"ab", "a$", "^", "a", "^a$", "b", "$", "^ab$">>
TrimTranscriptions == {"a", "b", "a b", "NULL"}

TrimInit ==
    /\ args \in Options({FALSE}, {"L1"})
    /\ \E rows \in FilesOver(TrimGraphemes, TrimTranscriptions, {"0"}) :
          profile = read_profile(rows, args)
    /\ segment_map = <<>>
    /\ wordlist = <<>>
    /\ row = 0
    /\ pc = "trim"
    /\ SegIdle
    /\ NoTrim

\* lines 530-535: a call of trim_profile that returns; the loop ends when it
\* removed nothing
TrimPass ==
    /\ pc = "trim"
    /\ LET pass == trim_profile(profile, args)
       IN  /\ ~pass.raised
           /\ profile' = pass.profile
           /\ removed' = pass.removed
           /\ total_removed' = total_removed + pass.removed
           /\ check_graphemes' = pass.check_graphemes
           /\ pc' = IF pass.removed = 0 THEN "report" ELSE "trim"
    /\ pass_input' = profile
    /\ passes' = passes + 1
    /\ UNCHANGED <<args, segment_map, rawform, language, wordlist, row, input_profile>>
    /\ UNCHANGED segvars

\* line 532: a call of trim_profile that raises; main does not catch it
TrimRaise ==
    /\ pc = "trim"
    /\ LET pass == trim_profile(profile, args)
       IN  /\ pass.raised
           /\ check_graphemes' = pass.check_graphemes
    /\ pc' = "raised"
    /\ pass_input' = profile
    /\ passes' = passes + 1
    /\ UNCHANGED <<args, profile, segment_map, rawform, language, wordlist, row,
                   input_profile, removed, total_removed>>
    /\ UNCHANGED segvars

\* line 537: the total is reported
TrimReport ==
    /\ pc = "report"
    /\ pc' = "done"
    /\ UNCHANGED <<args, profile, segment_map, rawform, language, wordlist, row>>
    /\ UNCHANGED segvars
    /\ UNCHANGED trimvars

TrimNext == TrimPass \/ TrimRaise \/ TrimReport

TrimSpec == TrimInit /\ [][TrimNext]_vars

-----------------------------------------------------------------------------
(* Properties of the segmenter *)

\* the lengths n >= 1 for which f[k : k + n] is a key of the table
KeyLengthsAt(f, k, map) ==
    {n \in 1..(Len(f) - k) : SubSeq(f, k + 1, k + n) \in DOMAIN map}

StepIndices == 1..Len(steps)

\* the stepwise run and the function computed in one piece agree
SegLoopAgrees ==
    spc \in {"returned", "raised"} =>
        LET whole == apply_profile_to_form(rawform, profile, segment_map, args)
        IN  /\ whole.raised = (spc = "raised")
            /\ spc = "returned" => whole.segments = result

\* C1: at every cursor position where some form[i:i+k], k >= 1, is a key of
\* the table, the step consumes the key with the largest such k, and never a
\* shorter key while a longer one matches there.
C1_LongestMatch ==
    \A s \in StepIndices :
        LET st == steps[s]
            lengths == KeyLengthsAt(st.form, st.at, segment_map)
        IN  lengths # {} =>
                /\ st.kind = "match"
                /\ st.len \in lengths
                /\ \A n \in lengths : n <= st.len
                /\ st.key = SubSeq(st.form, st.at + 1, st.at + st.len)

\* the form ^ab$ against a table holding "ab" and "a": "ab" is one step
C1_Witness ==
    /\ spc = "returned"
    /\ form = "^ab$"
    /\ {"ab", "a"} \subseteq DOMAIN segment_map
    /\ \E s \in StepIndices : steps[s].kind = "match" /\ steps[s].key = "ab"

IsErrorToken(token) == Len(token) >= 2 /\ SubSeq(token, 1, 2) = "<<"

\* the cursor positions of the run so far with no key of any length and a
\* character other than the space, ^ and $
UnmatchedSteps ==
    {s \in StepIndices :
        /\ KeyLengthsAt(steps[s].form, steps[s].at, segment_map) = {}
        /\ CharAt(steps[s].form, steps[s].at) \notin {" ", "^", "$"}}

RECURSIVE ErrorTokensFrom(_)
ErrorTokensFrom(s) ==
    IF s > Len(steps) THEN <<>>
    ELSE (IF s \in UnmatchedSteps
          THEN <<"<<" \o CharAt(steps[s].form, steps[s].at) \o ">>">>
          ELSE <<>>) \o ErrorTokensFrom(s + 1)

\* C4: every cursor position with no matching key of any length and a
\* character other than the space, ^ and $ appends exactly one error token
\* wrapping that character and advances the cursor by 1; the run goes on (it
\* does not raise, the next step starts right after the character), and the
\* error tokens of the result are those of these positions, in position order.
C4_UnmatchedCharacter ==
    /\ \A s \in UnmatchedSteps :
          /\ steps[s].tokens = <<"<<" \o CharAt(steps[s].form, steps[s].at) \o ">>">>
          /\ steps[s].len = 1
          /\ spc # "raised"
          /\ IF s < Len(steps)
             THEN steps[s + 1].at = steps[s].at + 1
             ELSE i = steps[s].at + 1
    /\ spc = "returned" => SelectSeq(result, IsErrorToken) = ErrorTokensFrom(1)

\* an unmatched character followed by a character that a rule matches
C4_Witness ==
    /\ spc = "returned"
    /\ \E s \in UnmatchedSteps :
          /\ s < Len(steps)
          /\ steps[s + 1].kind = "match"
          /\ Len(result) >= 2

Range(seq) == {seq[k] : k \in 1..Len(seq)}

\* C5: without the debug option no token of the result holds a NULL segment,
\* whether NULL is the whole transcription or one of its segments.
C5_NullSkipping ==
    (spc = "returned" /\ ~args.debug_wl) =>
        \A k \in 1..Len(result) : "NULL" \notin Range(Split(result[k]))

\* C6: the segmenter works on ^ + form + $ exactly when args.nobound is not
\* set, whatever args.nonfc is; so the scenario table segments "a" to A1 when
\* nobound is not set.
C6_BoundaryWrapping ==
    spc # "idle" =>
        LET text == IF ~args.nonfc THEN normalize(rawform) ELSE rawform
        IN  /\ form = (IF ~args.nobound THEN "^" \o text \o "$" ELSE text)
            /\ (/\ spc = "returned"
                /\ rawform = "a"
                /\ ~args.nobound
                /\ ~args.debug_wl
                /\ DOMAIN segment_map = {"^a$", "a", "^", "$"}
                /\ IpaOf(profile, segment_map, "^a$") = "A1") => result = <<"A1">>

-----------------------------------------------------------------------------
(* Properties of apply_profile *)

\* the steps of the pass so far at which the longest key at the cursor is g
MatchSteps(g) ==
    {s \in StepIndices :
        LET lengths == KeyLengthsAt(steps[s].form, steps[s].at, segment_map)
        IN  /\ lengths # {}
            /\ \E n \in lengths :
                  /\ \A m \in lengths : m <= n
                  /\ SubSeq(steps[s].form, steps[s].at + 1, steps[s].at + n) = g}

\* C7: during and after a pass of apply_profile the frequency of every rule
\* is the number of steps of the pass at which the rule was the matched key,
\* whatever the input table carried (as text once the profile is returned);
\* so a rule never matched has 0 and only a match changes a frequency.
C7_FrequencyCounting ==
    /\ pc = "rows" =>
          \A k \in 1..Len(profile) :
              profile[k].FREQUENCY = Cardinality(MatchSteps(profile[k].Grapheme))
    /\ pc = "applied" =>
          \A k \in 1..Len(profile) :
              profile[k].FREQUENCY = Str(Cardinality(MatchSteps(profile[k].Grapheme)))

\* a returned profile with a rule matched twice and a rule never matched,
\* both read with the frequency 7
C7_Witness ==
    /\ pc = "applied"
    /\ \E k, m \in 1..Len(profile) :
          /\ input_profile[k].FREQUENCY = "7"
          /\ input_profile[m].FREQUENCY = "7"
          /\ profile[k].FREQUENCY = "2"
          /\ profile[m].FREQUENCY = "0"
    /\ Len(steps) > 2

-----------------------------------------------------------------------------
(* Properties of the trimmer *)

Rules(prof) == {<<prof[k].Grapheme, prof[k].IPA>> : k \in 1..Len(prof)}

\* the text a rule's own grapheme segments to, against the whole table
Resegmented(prof, k, a) ==
    Join(apply_profile_to_form(prof[k].Grapheme, prof, BuildSegmentMap(prof), a).segments)

C3_TrimmingFixpoint ==
    pc = "done" =>
        LET again == trim_profile(profile, args)
        IN  /\ ~again.raised
            /\ again.removed = 0
            /\ Rules(again.profile) = Rules(profile)

\* a fixpoint reached on a table of two rules
C3_Witness ==
    /\ pc = "done"
    /\ passes >= 1
    /\ removed = 0
    /\ Cardinality(Rules(profile)) = 2

\* the pass the claims describe: each candidate is taken out, its grapheme is
\* segmented against the rest, and it stays out exactly when the joined
\* result is its transcription
RECURSIVE Decide(_, _, _, _, _, _)
Decide(check, n, prof, map, count, a) ==
    IF n > Len(check) THEN [graphemes |-> DOMAIN map, removed |-> count]
    ELSE IF check[n] \notin DOMAIN map THEN Decide(check, n + 1, prof, map, count, a)
    ELSE LET rest == Without(map, check[n])
             text == Join(apply_profile_to_form(check[n], prof, rest, a).segments)
         IN  IF text = IpaOf(prof, map, check[n])
             THEN Decide(check, n + 1, prof, rest, count + 1, a)
             ELSE Decide(check, n + 1, prof, map, count, a)

\* C8: a pass returns; the table it returns is its input without the
\* candidates whose grapheme, segmented against the table without them,
\* gives their transcription, every other rule is kept unchanged, and the
\* count it returns is the number of rules removed.
C8_RemovalDecision ==
    passes > 0 =>
        LET decided == Decide(check_graphemes, 1, pass_input, BuildSegmentMap(pass_input),
                              0, args)
        IN  /\ pc # "raised"
            /\ Rules(profile) = {r \in Rules(pass_input) : r[1] \in decided.graphemes}
            /\ removed = decided.removed
            /\ removed = Len(pass_input) - Len(profile)

CandidateClass(g) ==
    IF First(g) = "^" /\ Last(g) = "$" THEN 1
    ELSE IF Last(g) = "$" THEN 2
    ELSE 3

\* C9: the candidates of a pass are the graphemes with ^ and $, then those
\* with $ only, then the other graphemes of more than one character, longest
\* first; every grapheme of more than one character is a candidate.
C9_CandidateOrder ==
    passes > 0 =>
        /\ \A k \in 1..Len(pass_input) :
              Len(pass_input[k].Grapheme) > 1 =>
                  pass_input[k].Grapheme \in Range(check_graphemes)
        /\ \A m, n \in 1..Len(check_graphemes) :
              m < n =>
                  /\ CandidateClass(check_graphemes[m]) <= CandidateClass(check_graphemes[n])
                  /\ (CandidateClass(check_graphemes[m]) = 3
                        => Len(check_graphemes[m]) >= Len(check_graphemes[n]))

\* C10: no pass raises; the loop ends at the first pass that removes nothing,
\* after at most (number of rules + 1) passes, and the total is the number of
\* rules of the input table minus that of the final table.
C10_DriverTermination ==
    /\ pc # "raised"
    /\ pc \in {"report", "done"} =>
          /\ removed = 0
          /\ passes <= Len(input_profile) + 1
          /\ total_removed = Len(input_profile) - Len(profile)

-----------------------------------------------------------------------------
(* Termination of the segmenter *)

\* C11: for every table and form, the empty form taken as it is included,
\* the cursor stays within 0..len(form), every loop step moves it forward (by
\* the length of the matched key on a match, by 1 otherwise), the loop goes
\* on exactly while the cursor is short of len(form), and the function
\* returns its tokens without raising.
C11_SegmenterTermination ==
    /\ spc # "raised"
    /\ spc # "idle" => i \in 0..Len(form)
    /\ spc \in {"filter", "returned"} => i = Len(form)
    /\ (spc = "loop" /\ steps # <<>>) => i < Len(form)
    /\ \A s \in StepIndices :
          /\ steps[s].len >= 1
          /\ steps[s].kind = "match" => steps[s].len = Len(steps[s].key)
          /\ steps[s].kind # "match" => steps[s].len = 1
          /\ IF s < Len(steps)
             THEN steps[s + 1].at = steps[s].at + steps[s].len
             ELSE i = steps[s].at + steps[s].len

====
